---- MODULE Spec2Model ----
(***************************************************************************)
(* Model of iqmag/Pipeline (src/cmd/main.go): a ring buffer of integers,   *)
(* two filter stages and a buffering stage connected by unbuffered         *)
(* channels, a source goroutine that owns the done signal, and a consumer. *)
(*                                                                         *)
(* Goroutines are modelled at the granularity of their communications and  *)
(* of their accesses to the ring buffer.  A send on an unbuffered channel  *)
(* and the matching receive are one joint step (Handoff).  A select with   *)
(* several ready cases takes any of them.                                  *)
(***************************************************************************)
EXTENDS Integers, Sequences, FiniteSets, TLC

\* ------------------------------------------------------------------ bounds
MaxLines  == 3   \* integers the source reads from stdin before "exit"
BufSize   == 2   \* capacity of the buffering stage's ring (bufferSize, scaled)
MaxSize   == 3   \* largest ring capacity tried by the sequential ring harness
MaxPushes == 5   \* Push calls per run of the sequential ring harness

\* integers typed on stdin.  The pipeline of main tells apart: dropped by the
\* negative filter (-3), dropped by the multiple-of-three filter (0), and
\* forwarded (3, 6).  A stage on its own tells apart: negative multiple of
\* three (-3), zero, positive non-multiple (2), positive multiple (3).
MainVals  == {-3, 0, 3, 6}
StageVals == {-3, 0, 2, 3}
Vals      == MainVals \cup StageVals

Kinds   == {"neg", "spec", "buf"}
Chans   == {"src", "neg", "spec", "buf"}
Workers == {"src", "neg", "spec", "col", "dr", "cl", "con"}

VARIABLES
    stages,      \* PipelineInt.stages: sequence of stage kinds
    inp,         \* inp[k]: the channel stage k was given as input by Run
    tail,        \* the channel Run returned (the consumer's input)
    pc,          \* pc[w]: position of goroutine w ("off" = never started)
    val,         \* val[w]: the item goroutine w holds (data / i / v), else 0
    nread,       \* integers read by the source's scanner
    closes,      \* closes[ch]: number of close(ch) executed
    doneClosed,  \* the done channel has been closed
    hist,        \* hist[ch]: items handed over on channel ch, in order
    post,        \* post[ch]: hand-overs on ch that happened after close(done)
    track,       \* observers recorded: "hist" (hist, drSnap), "post" (post)
    wg,          \* sync.WaitGroup counter of bufferStageInt
    array,       \* RingIntBuffer.array (1-based here, 0-based in Go)
    pos,         \* RingIntBuffer.pos
    size,        \* RingIntBuffer.size
    mu,          \* RingIntBuffer.mu: "free" or the holder
    drLen,       \* len(data) of the slice the drainer got from Get
    drI,         \* index of the drainer's range loop over data
    drSnap,      \* array[0..pos] at the moment of the drainer's last Get
    lastOp,      \* ring harness: last call ("new", "push", "get")
    prev,        \* ring harness: pos, array, pushed before the last call
    pushed,      \* ring harness: items pushed since New or the last Get
    got,         \* ring harness: result of the last Get
    nilRun,      \* ring harness: consecutive Get calls that returned nil
    npush        \* ring harness: Push calls so far

pipeVars == <<stages, inp, tail, pc, val, nread, closes, doneClosed, hist,
              post, track, wg, mu, drLen, drI, drSnap>>
ringVars == <<lastOp, prev, pushed, got, nilRun, npush>>
bufVars  == <<array, pos, size>>
vars     == <<pipeVars, ringVars, bufVars>>

\* --------------------------------------------------------- RingIntBuffer
\* Go's % truncates toward zero: the result has the sign of the dividend.
GoMod(a, b) == IF a >= 0 THEN a % b ELSE -((-a) % b)

NewArray(sz) == [i \in 1..sz |-> 0]

\* slip: the cursor stops at the last slot instead of wrapping
PushPos_SticksAtEnd(p, sz) == IF p + 1 < sz THEN p + 1 ELSE sz - 1

\* r.pos = (r.pos + 1) % r.size
PushPos(p, sz) == GoMod(p + 1, sz)

\* r.array[r.pos] = el
PushStore(arr, p, el) == [arr EXCEPT ![p + 1] = el]

\* slip: the emptiness test misses pos = -1
GetEmpty_MissesMinusOne(p) == p < -1

\* if r.pos < 0 { return nil }
GetEmpty(p) == p < 0

\* slip: the slice stops one short, r.array[:r.pos]
GetLen_OneShort(p) == p

\* len(r.array[:r.pos+1])
GetLen(p) == p + 1

\* the values of r.array[:r.pos+1] when it is read
GetSlice(arr, p) == SubSeq(arr, 1, GetLen(p))

NilResult == [isNil |-> TRUE, items |-> <<>>]

\* ----------------------------------------------- sequential ring harness
\* One caller at a time: NewRingIntBuffer(size), then Push and Get calls.
MaxNil == 3      \* consecutive empty Get calls followed by the harness

\* the pipeline is not started in the ring harness
PipeIdle ==
    /\ stages = <<>>
    /\ inp = [k \in Kinds |-> "none"]
    /\ tail = "src"
    /\ pc = [w \in Workers |-> "off"]
    /\ val = [w \in Workers |-> 0]
    /\ nread = 0
    /\ closes = [ch \in Chans |-> 0]
    /\ doneClosed = FALSE
    /\ hist = [ch \in Chans |-> <<>>]
    /\ post = [ch \in Chans |-> 0]
    /\ track = {}
    /\ wg = 0
    /\ mu = "free"
    /\ drLen = 0
    /\ drI = 0
    /\ drSnap = <<>>

RingIdle ==
    /\ lastOp = "new"
    /\ prev = [pos |-> -1, array |-> <<>>, pushed |-> <<>>]
    /\ pushed = <<>>
    /\ got = NilResult
    /\ nilRun = 0
    /\ npush = 0

\* NewRingIntBuffer(size)
NewRingIntBuffer(sz) ==
    /\ array = NewArray(sz)
    /\ pos = -1
    /\ size = sz

RingInit ==
    /\ \E sz \in 1..MaxSize : NewRingIntBuffer(sz)
    /\ RingIdle
    /\ PipeIdle

\* r.Push(el), called with no other goroutine running
Push(el) ==
    /\ npush < MaxPushes
    /\ pos' = PushPos(pos, size)
    /\ array' = PushStore(array, pos', el)
    /\ lastOp' = "push"
    /\ prev' = [pos |-> pos, array |-> array, pushed |-> pushed]
    /\ pushed' = Append(pushed, el)
    /\ nilRun' = 0
    /\ npush' = npush + 1
    /\ UNCHANGED <<size, got, pipeVars>>

\* r.Get(), called with no other goroutine running
Get ==
    /\ IF GetEmpty(pos)
         THEN /\ nilRun < MaxNil
              /\ got' = NilResult
              /\ nilRun' = nilRun + 1
              /\ UNCHANGED pos
         ELSE /\ got' = [isNil |-> FALSE, items |-> GetSlice(array, pos)]
              /\ pos' = -1
              /\ nilRun' = 0
    /\ lastOp' = "get"
    /\ prev' = [pos |-> pos, array |-> array, pushed |-> pushed]
    /\ pushed' = <<>>
    /\ UNCHANGED <<array, size, npush, pipeVars>>

RingNext ==
    \/ \E el \in Vals : Push(el)
    \/ Get

RingSpec == RingInit /\ [][RingNext]_vars

\* ------------------------------------------------------------- pipeline
Closed(ch) == closes[ch] > 0

\* slip: every stage is called with the source, c = stage(source, p.done)
RECURSIVE Run_SourceToAll(_, _, _)
Run_SourceToAll(stgs, c, w) ==
    IF stgs = <<>>
      THEN [tail |-> c, inp |-> w]
      ELSE Run_SourceToAll(Tail(stgs), Head(stgs),
                           [w EXCEPT ![Head(stgs)] = "src"])

\* PipelineInt.Run: c := source; for each stage, c = stage(c, p.done).
\* A stage's output channel is named after the stage; w records the input
\* channel each stage was called with.
RECURSIVE Run(_, _, _)
Run(stgs, c, w) ==
    IF stgs = <<>>
      THEN [tail |-> c, inp |-> w]
      ELSE Run(Tail(stgs), Head(stgs), [w EXCEPT ![Head(stgs)] = c])

\* the goroutine that sends on channel ch / receives from channel ch
Sender(ch) == CASE ch = "src" -> "src"
                [] ch = "buf" -> "dr"
                [] OTHER      -> ch

Receiver(ch) ==
    IF ch = tail
      THEN "con"
      ELSE LET k == CHOOSE s \in Kinds : inp[s] = ch
           IN  IF k = "buf" THEN "col" ELSE k

\* slip: zero is dropped with the negatives
negativeFilter_Strict(data) == data > 0

\* if data >= 0
negativeFilter(data) == data >= 0

\* slip: zero is not excluded
specialFilter_AcceptsZero(data) == GoMod(data, 3) = 0

\* if data != 0 && data%3 == 0
specialFilter(data) == data # 0 /\ GoMod(data, 3) = 0

\* where a goroutine continues after its send completed
AfterSend(s) == CASE s = "src" -> "scan"
                  [] s = "dr"  -> "range"
                  [] OTHER     -> "select"

\* where a goroutine continues after it received v (ok = true)
AfterRecv(r, v) ==
    CASE r = "neg"  -> IF negativeFilter(v) THEN "send" ELSE "select"
      [] r = "spec" -> IF specialFilter(v) THEN "send" ELSE "select"
      [] r = "col"  -> "push"
      [] OTHER      -> "select"

\* the item a goroutine keeps after it received v
Keeps(r, v) == IF AfterRecv(r, v) \in {"send", "push"} THEN v ELSE 0

\* main: dataSource(), NewPipelineInt(done, stages...), pipeline.Run(source),
\* consumer(done, tail): every goroutine is started and waits.
Start(cfg, trk) ==
    /\ stages = cfg
    /\ LET r == Run(cfg, "src", [k \in Kinds |-> "none"])
       IN  /\ inp = r.inp
           /\ tail = r.tail
    /\ pc = [w \in Workers |->
               CASE w = "src"            -> "scan"
                 [] w = "con"            -> "select"
                 [] w \in {"neg","spec"} ->
                      IF \E i \in 1..Len(cfg) : cfg[i] = w
                        THEN "select" ELSE "off"
                 [] OTHER ->
                      IF \E i \in 1..Len(cfg) : cfg[i] = "buf"
                        THEN (IF w = "cl" THEN "wait" ELSE "select")
                        ELSE "off"]
    /\ val = [w \in Workers |-> 0]
    /\ nread = 0
    /\ closes = [ch \in Chans |-> 0]
    /\ doneClosed = FALSE
    /\ hist = [ch \in Chans |-> <<>>]
    /\ post = [ch \in Chans |-> 0]
    /\ track = trk
    /\ wg = IF \E i \in 1..Len(cfg) : cfg[i] = "buf" THEN 2 ELSE 0
    /\ mu = "free"
    /\ drLen = 0
    /\ drI = 0
    /\ drSnap = <<>>
    /\ NewRingIntBuffer(BufSize)
    /\ RingIdle

\* the pipeline main builds
MainStages == <<"neg", "spec", "buf">>

Init == Start(MainStages, {"hist"})

\* the same start, counting the hand-overs after close(done) instead
CancelInit == Start(MainStages, {"post"})

\* the same start with the observers left off
LiveInit == Start(MainStages, {})

\* ---- channel hand-over: a send and the receive that takes it
Handoff(ch) ==
    /\ pc[Sender(ch)] = "send"
    /\ pc[Receiver(ch)] = "select"
    /\ LET s == Sender(ch)
           r == Receiver(ch)
           v == val[s]
       IN  /\ pc' = [pc EXCEPT ![s] = AfterSend(s), ![r] = AfterRecv(r, v)]
           /\ val' = [val EXCEPT ![s] = 0, ![r] = Keeps(r, v)]
           /\ hist' = IF "hist" \in track
                        THEN [hist EXCEPT ![ch] = Append(@, v)]
                        ELSE hist
           /\ post' = IF "post" \in track /\ doneClosed
                         THEN [post EXCEPT ![ch] = @ + 1]
                         ELSE post
           /\ drI' = IF s = "dr" THEN drI + 1 ELSE drI
    /\ UNCHANGED <<stages, inp, tail, nread, closes, doneClosed, track, wg,
                   mu, drLen, drSnap, ringVars, bufVars>>

\* ---- dataSource goroutine
\* scanner.Scan() until a line is an integer i, then go on to c <- i.  A line
\* that is neither "exit" nor an integer is logged and skipped (continue):
\* it changes no state, so it is a stuttering step of the source.
SrcScanInt(i) ==
    /\ pc["src"] = "scan"
    /\ nread < MaxLines
    /\ nread' = nread + 1
    /\ pc' = [pc EXCEPT !["src"] = "send"]
    /\ val' = [val EXCEPT !["src"] = i]
    /\ UNCHANGED <<stages, inp, tail, closes, doneClosed, hist, post, track,
                   wg, mu, drLen, drI, drSnap, ringVars, bufVars>>

\* the same step of the source when the lines read are not counted: stdin
\* never runs dry
SrcScanAny(i) ==
    /\ pc["src"] = "scan"
    /\ pc' = [pc EXCEPT !["src"] = "send"]
    /\ val' = [val EXCEPT !["src"] = i]
    /\ UNCHANGED <<stages, inp, tail, nread, closes, doneClosed, hist, post,
                   track, wg, mu, drLen, drI, drSnap, ringVars, bufVars>>

\* slip: "exit" closes done at once and the loop goes on (no close(c),
\* no return)
SrcExit_NoReturn ==
    /\ pc["src"] = "scan"
    /\ ~doneClosed
    /\ doneClosed' = TRUE
    /\ UNCHANGED <<stages, inp, tail, pc, val, nread, closes, hist, post,
                   track, wg, mu, drLen, drI, drSnap, ringVars, bufVars>>

\* the line is "exit": close(c), log, return (the deferred call is pending)
SrcExit ==
    /\ pc["src"] = "scan"
    /\ closes' = [closes EXCEPT !["src"] = @ + 1]
    /\ pc' = [pc EXCEPT !["src"] = "exit"]
    /\ UNCHANGED <<stages, inp, tail, val, nread, doneClosed, hist, post,
                   track, wg, mu, drLen, drI, drSnap, ringVars, bufVars>>

\* defer close(done)
SrcCloseDone ==
    /\ pc["src"] = "exit"
    /\ doneClosed' = TRUE
    /\ pc' = [pc EXCEPT !["src"] = "done"]
    /\ UNCHANGED <<stages, inp, tail, val, nread, closes, hist, post, track,
                   wg, mu, drLen, drI, drSnap, ringVars, bufVars>>

\* ---- filter stage goroutine k ("neg" or "spec")
\* return, with the deferred close(output)
FilterReturn(k) ==
    /\ pc' = [pc EXCEPT ![k] = "done"]
    /\ val' = [val EXCEPT ![k] = 0]
    /\ closes' = [closes EXCEPT ![k] = @ + 1]
    /\ UNCHANGED <<stages, inp, tail, nread, doneClosed, hist, post, track,
                   wg, mu, drLen, drI, drSnap, ringVars, bufVars>>

\* slip: the worker returns on exhausted input without closing its output
\* (no defer close(output))
FilterRecvClosed_NoClose(k) ==
    /\ pc[k] = "select"
    /\ Closed(inp[k])
    /\ pc' = [pc EXCEPT ![k] = "done"]
    /\ val' = [val EXCEPT ![k] = 0]
    /\ UNCHANGED <<stages, inp, tail, nread, closes, doneClosed, hist, post,
                   track, wg, mu, drLen, drI, drSnap, ringVars, bufVars>>

\* case data, ok := <-input with !ok
FilterRecvClosed(k) ==
    /\ pc[k] = "select"
    /\ Closed(inp[k])
    /\ FilterReturn(k)

\* outer select, case <-done
FilterDone(k) ==
    /\ pc[k] = "select"
    /\ doneClosed
    /\ FilterReturn(k)

\* slip: the inner select has a default case in place of <-done: an item
\* the receiver is not ready for is dropped
FilterSendDone_Default(k) ==
    /\ pc[k] = "send"
    /\ pc' = [pc EXCEPT ![k] = "select"]
    /\ val' = [val EXCEPT ![k] = 0]
    /\ UNCHANGED <<stages, inp, tail, nread, closes, doneClosed, hist, post,
                   track, wg, mu, drLen, drI, drSnap, ringVars, bufVars>>

\* inner select, case <-done
FilterSendDone(k) ==
    /\ pc[k] = "send"
    /\ doneClosed
    /\ FilterReturn(k)

\* ---- bufferStageInt, collector goroutine
\* return, with the deferred wg.Done(); the goroutine's locals are gone
BufWorkerReturn(w) ==
    /\ pc' = [pc EXCEPT ![w] = "done"]
    /\ val' = [val EXCEPT ![w] = 0]
    /\ wg' = wg - 1
    /\ drLen' = IF w = "dr" THEN 0 ELSE drLen
    /\ drI' = IF w = "dr" THEN 0 ELSE drI
    /\ drSnap' = IF w = "dr" THEN <<>> ELSE drSnap
    /\ UNCHANGED <<stages, inp, tail, nread, closes, doneClosed, hist, post,
                   track, mu, ringVars, bufVars>>

\* slip: the collector closes the output on exhausted input, as a filter
\* does (defer close(output))
ColRecvClosed_ClosesOutput ==
    /\ pc["col"] = "select"
    /\ Closed(inp["buf"])
    /\ pc' = [pc EXCEPT !["col"] = "done"]
    /\ val' = [val EXCEPT !["col"] = 0]
    /\ wg' = wg - 1
    /\ closes' = [closes EXCEPT !["buf"] = @ + 1]
    /\ UNCHANGED <<stages, inp, tail, nread, doneClosed, hist, post, track,
                   mu, drLen, drI, drSnap, ringVars, bufVars>>

\* case data, ok := <-input with !ok
ColRecvClosed ==
    /\ pc["col"] = "select"
    /\ Closed(inp["buf"])
    /\ BufWorkerReturn("col")

\* case <-done
ColDone ==
    /\ pc["col"] = "select"
    /\ doneClosed
    /\ BufWorkerReturn("col")

\* buffer.Push(data): r.mu.Lock(); r.pos = (r.pos + 1) % r.size
ColPushPos ==
    /\ pc["col"] = "push"
    /\ mu = "free"
    /\ mu' = "col"
    /\ pos' = PushPos(pos, size)
    /\ pc' = [pc EXCEPT !["col"] = "store"]
    /\ UNCHANGED <<stages, inp, tail, val, nread, closes, doneClosed, hist,
                   post, track, wg, drLen, drI, drSnap, ringVars, array,
                   size>>

\* slip: Push advances the cursor and stores nothing
ColPushStore_NoStore ==
    /\ pc["col"] = "store"
    /\ mu' = "free"
    /\ pc' = [pc EXCEPT !["col"] = "select"]
    /\ val' = [val EXCEPT !["col"] = 0]
    /\ UNCHANGED <<stages, inp, tail, nread, closes, doneClosed, hist, post,
                   track, wg, drLen, drI, drSnap, ringVars, bufVars>>

\* buffer.Push(data): r.array[r.pos] = el; r.mu.Unlock()
ColPushStore ==
    /\ pc["col"] = "store"
    /\ array' = PushStore(array, pos, val["col"])
    /\ mu' = "free"
    /\ pc' = [pc EXCEPT !["col"] = "select"]
    /\ val' = [val EXCEPT !["col"] = 0]
    /\ UNCHANGED <<stages, inp, tail, nread, closes, doneClosed, hist, post,
                   track, wg, drLen, drI, drSnap, ringVars, pos, size>>

\* ---- bufferStageInt, drainer goroutine
\* case <-time.After(bufferDrainInterval): the interval has elapsed
DrTimer ==
    /\ pc["dr"] = "select"
    /\ pc' = [pc EXCEPT !["dr"] = "get"]
    /\ UNCHANGED <<stages, inp, tail, val, nread, closes, doneClosed, hist,
                   post, track, wg, mu, drLen, drI, drSnap, ringVars,
                   bufVars>>

\* slip: the drainer gives up when the buffer is empty (data == nil: return)
DrGetCheck_ReturnsOnNil ==
    /\ pc["dr"] = "get"
    /\ IF GetEmpty(pos)
         THEN /\ pc' = [pc EXCEPT !["dr"] = "done"]
              /\ wg' = wg - 1
         ELSE /\ pc' = [pc EXCEPT !["dr"] = "lock"]
              /\ UNCHANGED wg
    /\ UNCHANGED <<stages, inp, tail, val, nread, closes, doneClosed, hist,
                   post, track, mu, drLen, drI, drSnap, ringVars, bufVars>>

\* buffer.Get(): if r.pos < 0 { return nil }, read without the lock;
\* data == nil sends the drainer back to its select
DrGetCheck ==
    /\ pc["dr"] = "get"
    /\ pc' = [pc EXCEPT !["dr"] = IF GetEmpty(pos) THEN "select" ELSE "lock"]
    /\ UNCHANGED <<stages, inp, tail, val, nread, closes, doneClosed, hist,
                   post, track, wg, mu, drLen, drI, drSnap, ringVars,
                   bufVars>>

\* slip: Get does not reset r.pos
DrGetSlice_NoReset ==
    /\ pc["dr"] = "lock"
    /\ mu = "free"
    /\ drLen' = GetLen(pos)
    /\ drSnap' = IF "hist" \in track THEN GetSlice(array, pos) ELSE drSnap
    /\ drI' = 0
    /\ pc' = [pc EXCEPT !["dr"] = "range"]
    /\ UNCHANGED <<stages, inp, tail, val, nread, closes, doneClosed, hist,
                   post, track, wg, mu, ringVars, bufVars>>

\* buffer.Get(): r.mu.Lock(); output = r.array[:r.pos+1]; r.pos = -1;
\* r.mu.Unlock().  The slice shares r.array: only its length is fixed here.
DrGetSlice ==
    /\ pc["dr"] = "lock"
    /\ mu = "free"
    /\ drLen' = GetLen(pos)
    /\ drSnap' = IF "hist" \in track THEN GetSlice(array, pos) ELSE drSnap
    /\ pos' = -1
    /\ drI' = 0
    /\ pc' = [pc EXCEPT !["dr"] = "range"]
    /\ UNCHANGED <<stages, inp, tail, val, nread, closes, doneClosed, hist,
                   post, track, wg, mu, ringVars, array, size>>

\* for _, v := range data: v = data[i] is read from r.array, without the lock;
\* after the last item data goes out of scope
DrRange ==
    /\ pc["dr"] = "range"
    /\ IF drI < drLen
         THEN /\ val' = [val EXCEPT !["dr"] = array[drI + 1]]
              /\ pc' = [pc EXCEPT !["dr"] = "send"]
              /\ UNCHANGED <<drLen, drI, drSnap>>
         ELSE /\ pc' = [pc EXCEPT !["dr"] = "select"]
              /\ drLen' = 0
              /\ drI' = 0
              /\ drSnap' = <<>>
              /\ UNCHANGED val
    /\ UNCHANGED <<stages, inp, tail, nread, closes, doneClosed, hist, post,
                   track, wg, mu, ringVars, bufVars>>

\* slip: the drainer's send is not raced against done (a bare output <- v)
DrSendDone_NoDoneCase ==
    /\ pc["dr"] = "send"
    /\ FALSE
    /\ UNCHANGED vars

\* inner select, case <-done
DrSendDone ==
    /\ pc["dr"] = "send"
    /\ doneClosed
    /\ BufWorkerReturn("dr")

\* outer select, case <-done
DrDone ==
    /\ pc["dr"] = "select"
    /\ doneClosed
    /\ BufWorkerReturn("dr")

\* ---- bufferStageInt, join-and-close goroutine
\* slip: only one wg.Add(1), so Wait returns when one worker is left
ClWait_OneAdd ==
    /\ pc["cl"] = "wait"
    /\ wg <= 1
    /\ pc' = [pc EXCEPT !["cl"] = "close"]
    /\ UNCHANGED <<stages, inp, tail, val, nread, closes, doneClosed, hist,
                   post, track, wg, mu, drLen, drI, drSnap, ringVars,
                   bufVars>>

\* wg.Wait() returns
ClWait ==
    /\ pc["cl"] = "wait"
    /\ wg = 0
    /\ pc' = [pc EXCEPT !["cl"] = "close"]
    /\ UNCHANGED <<stages, inp, tail, val, nread, closes, doneClosed, hist,
                   post, track, wg, mu, drLen, drI, drSnap, ringVars,
                   bufVars>>

\* close(output)
ClClose ==
    /\ pc["cl"] = "close"
    /\ closes' = [closes EXCEPT !["buf"] = @ + 1]
    /\ pc' = [pc EXCEPT !["cl"] = "done"]
    /\ UNCHANGED <<stages, inp, tail, val, nread, doneClosed, hist, post,
                   track, wg, mu, drLen, drI, drSnap, ringVars, bufVars>>

\* ---- consumer
ConReturn ==
    /\ pc' = [pc EXCEPT !["con"] = "done"]
    /\ UNCHANGED <<stages, inp, tail, val, nread, closes, doneClosed, hist,
                   post, track, wg, mu, drLen, drI, drSnap, ringVars,
                   bufVars>>

\* case data, ok := <-c with !ok
ConRecvClosed ==
    /\ pc["con"] = "select"
    /\ Closed(tail)
    /\ ConReturn

\* case <-done
ConDone ==
    /\ pc["con"] = "select"
    /\ doneClosed
    /\ ConReturn

\* ---- the goroutines
dataSource(V) ==
    \/ \E i \in V : SrcScanInt(i)
    \/ SrcExit
    \/ SrcCloseDone

negativeFilterStageInt ==
    \/ FilterRecvClosed("neg")
    \/ FilterDone("neg")
    \/ FilterSendDone("neg")

specialFilterStageInt ==
    \/ FilterRecvClosed("spec")
    \/ FilterDone("spec")
    \/ FilterSendDone("spec")

bufferStageInt ==
    \/ ColRecvClosed
    \/ ColDone
    \/ ColPushPos
    \/ ColPushStore
    \/ DrTimer
    \/ DrGetCheck
    \/ DrGetSlice
    \/ DrRange
    \/ DrSendDone
    \/ DrDone
    \/ ClWait
    \/ ClClose

consumer ==
    \/ ConRecvClosed
    \/ ConDone

NextOver(V) ==
    \/ dataSource(V)
    \/ negativeFilterStageInt
    \/ specialFilterStageInt
    \/ bufferStageInt
    \/ consumer
    \/ \E ch \in Chans : Handoff(ch)

Next == NextOver(MainVals)

Spec == Init /\ [][Next]_vars

CancelSpec == CancelInit /\ [][Next]_vars

\* NewPipelineInt(done, stages...) with any list of distinct stages, the
\* empty list included
StageLists ==
    {s \in UNION {[1..n -> Kinds] : n \in 0..Cardinality(Kinds)} :
        \A i, j \in 1..Len(s) : i # j => s[i] # s[j]}

RunInit == \E cfg \in StageLists : Start(cfg, {})

\* the wiring does not depend on the integers: two of them flow here
RunVals == {-3, 3}

RunNext == NextOver(RunVals)

RunSpec == RunInit /\ [][RunNext]_vars

\* each stage on its own between the source and the consumer
StageInit == \E k \in Kinds : Start(<<k>>, {"hist"})

StageNext == NextOver(StageVals)

StageSpec == StageInit /\ [][StageNext]_vars


\* Scheduling: a goroutine that can take a step is eventually run (weak
\* fairness of every step that does not wait for a partner), and a select
\* whose done case is ready again and again eventually takes it, select
\* choosing uniformly at random among its ready cases (strong fairness of
\* the drainer's outer done case, which competes with the timer case
\* in every round of the loop).
Fairness ==
    /\ \A k \in {"neg", "spec"} :
          /\ WF_vars(FilterRecvClosed(k))
          /\ WF_vars(FilterDone(k))
          /\ WF_vars(FilterSendDone(k))
    /\ WF_vars(ColRecvClosed)
    /\ WF_vars(ColDone)
    /\ WF_vars(ColPushPos)
    /\ WF_vars(ColPushStore)
    /\ WF_vars(DrGetCheck)
    /\ WF_vars(DrGetSlice)
    /\ WF_vars(DrRange)
    /\ WF_vars(DrSendDone)
    /\ SF_vars(DrDone)
    /\ WF_vars(ClWait)
    /\ WF_vars(ClClose)
    /\ WF_vars(ConRecvClosed)
    /\ WF_vars(ConDone)

FairSpec == LiveInit /\ [][Next]_vars /\ Fairness

\* the interval always elapses (time.After) and the consumer's loop always
\* comes back to its receive, so a pending drain and a pending send on the
\* tail are not postponed for ever
DrainFairness ==
    /\ Fairness
    /\ WF_vars(DrTimer)
    /\ WF_vars(Handoff("buf"))

DrainSpec == LiveInit /\ [][Next]_vars /\ DrainFairness

\* a filter stage on its own between the source and a consumer that keeps
\* receiving
FilterInit == \E k \in {"neg", "spec"} : Start(<<k>>, {"hist"})

FilterNext ==
    \/ dataSource(StageVals)
    \/ negativeFilterStageInt
    \/ specialFilterStageInt
    \/ consumer
    \/ \E ch \in Chans : Handoff(ch)

FilterFairness ==
    /\ \A k \in {"neg", "spec"} :
          /\ WF_vars(FilterRecvClosed(k))
          /\ WF_vars(FilterDone(k))
          /\ WF_vars(FilterSendDone(k))
          /\ WF_vars(Handoff(k))
    /\ WF_vars(ConRecvClosed)
    /\ WF_vars(ConDone)

FilterSpec == FilterInit /\ [][FilterNext]_vars /\ FilterFairness

\* main's pipeline fed by a source that always has another line, in front
\* of a consumer that may stop receiving: no fairness of the hand-overs
FlowVals == {-3, 0, 3}

FlowNext ==
    \/ \E i \in FlowVals : SrcScanAny(i)
    \/ SrcExit
    \/ SrcCloseDone
    \/ negativeFilterStageInt
    \/ specialFilterStageInt
    \/ bufferStageInt
    \/ consumer
    \/ \E ch \in Chans : Handoff(ch)

FlowFairness == Fairness /\ WF_vars(DrTimer)

FlowSpec == LiveInit /\ [][FlowNext]_vars /\ FlowFairness

Terminated(w) == pc[w] \in {"off", "done"}

\* C1: once done is closed, every goroutine the pipeline started (both
\* filter workers, collector, drainer, join-and-close worker, consumer)
\* eventually terminates, whatever it was waiting for.
C1_CancellationPropagates ==
    doneClosed ~> (\A w \in Workers : Terminated(w))

C1_Witness ==
    /\ doneClosed
    /\ \A w \in Workers : pc[w] = "done"
    /\ array # NewArray(size)

\* C2: the buffering stage's output is closed at most once, and only when
\* the collector and the drainer have both returned, so the drainer cannot
\* send on it after the close.
C2_OutputClosedAfterJoin ==
    /\ closes["buf"] <= 1
    /\ Closed("buf") => (pc["col"] = "done" /\ pc["dr"] = "done")

C2_Witness ==
    /\ closes["buf"] = 1
    /\ hist["buf"] # <<>>

\* C3: every item the drainer forwards from a drain is the buffer content
\* at that index at the moment of the drain (no torn read), also while the
\* collector keeps pushing.
C3_NoTornRead ==
    pc["dr"] = "send" => val["dr"] = drSnap[drI + 1]

\* C4: size + k pushes (0 < k < size) into an empty buffer, then a drain:
\* the drain returns size items, the first k original items overwritten.
C4_OverflowReturnsSize ==
    LET p == prev.pushed
        k == Len(p) - size
    IN  (lastOp = "get" /\ 0 < k /\ k < size) =>
            /\ ~got.isNil
            /\ Len(got.items) = size
            /\ got.items = SubSeq(p, size + 1, size + k)
                             \o SubSeq(p, k + 1, size)

\* C5: n pushes (1 <= n <= size) into an empty buffer, then a drain: the
\* drain returns exactly the n items in push order and leaves pos = -1.
C5_WithinCapacity ==
    (lastOp = "get" /\ 1 <= Len(prev.pushed) /\ Len(prev.pushed) <= size) =>
        /\ got = [isNil |-> FALSE, items |-> prev.pushed]
        /\ pos = -1

C5_Witness ==
    /\ lastOp = "get"
    /\ size >= 2
    /\ Len(prev.pushed) = size
    /\ npush > size
    /\ got.items = prev.pushed

NonNegative(v) == v >= 0

Divides3(v) == \E q \in -6..6 : v = 3 * q

NonZeroMultipleOf3(v) == v # 0 /\ Divides3(v)

Survivor(v) == v > 0 /\ Divides3(v)

\* the item a filter worker has accepted and not yet handed on
Held(k) == IF pc[k] = "send" THEN <<val[k]>> ELSE <<>>

\* C6: absent cancellation, what the negative filter has sent plus what it
\* holds is the subsequence of its input with v >= 0, in order; it closes
\* its output only after its input was closed and all of it was handed on.
C6_NegativeFilter ==
    (pc["neg"] # "off" /\ ~doneClosed) =>
        /\ hist["neg"] \o Held("neg") = SelectSeq(hist[inp["neg"]], NonNegative)
        /\ closes["neg"] <= 1
        /\ Closed("neg") => (Closed(inp["neg"]) /\ Held("neg") = <<>>)

C6_Witness ==
    /\ pc["neg"] = "done"
    /\ ~doneClosed
    /\ Closed("neg")
    /\ hist["src"] = <<3, -3, 0>>
    /\ hist["neg"] = <<3, 0>>

\* C7: absent cancellation, what the multiple-of-three filter has sent plus
\* what it holds is the subsequence of its input with v # 0 and 3 | v, in
\* order (0 dropped, -3 forwarded).
C7_SpecialFilter ==
    (pc["spec"] # "off" /\ ~doneClosed) =>
        hist["spec"] \o Held("spec")
            = SelectSeq(hist[inp["spec"]], NonZeroMultipleOf3)

C7_Witness ==
    /\ pc["spec"] = "done"
    /\ ~doneClosed
    /\ hist["src"] = <<0, -3, 3>>
    /\ hist["spec"] = <<-3, 3>>

\* C8: no cancellation, at most size survivors (v > 0, 3 | v), all of them
\* in the buffer at the drain, and the drainer has just forwarded the last
\* item of that drain:
\* the tail has emitted exactly the survivors, in source order.
C8_EndToEnd ==
    LET surv == SelectSeq(hist["src"], Survivor)
    IN  ( /\ stages = MainStages
          /\ ~doneClosed
          /\ surv # <<>>
          /\ Len(surv) <= size
          /\ SelectSeq(drSnap, Survivor) = surv
          /\ pc["dr"] = "range"
          /\ drI = drLen ) => hist[tail] = surv

C8_Witness ==
    /\ ~doneClosed
    /\ hist["src"] = <<-3, 3, 6>>
    /\ drSnap = <<3, 6>>
    /\ pc["dr"] = "range"
    /\ drI = drLen
    /\ hist[tail] = <<3, 6>>

\* C9 as stated: once done is closed no item is handed over on any channel.
C9_NoHandoffAfterDone ==
    \A ch \in Chans : post[ch] = 0

\* C9 amended: once done is closed no item enters the pipeline, the
\* negative filter completes at most one more send (the item it holds) and
\* the multiple-of-three filter at most two.
C9_BoundedAfterDone ==
    stages = MainStages =>
        /\ post["src"] = 0
        /\ post["neg"] <= 1
        /\ post["spec"] <= 2

C9_Witness ==
    /\ doneClosed
    /\ post["neg"] = 1
    /\ post["spec"] = 2

\* C10: a Get on a buffer with pos < 0 (new, or drained with no Push since)
\* returns nil and leaves pos and array as they were; so does the next one.
C10_EmptyDrainIdempotent ==
    (lastOp = "get" /\ prev.pos < 0) =>
        /\ got = NilResult
        /\ pos = prev.pos
        /\ array = prev.array

C10_Witness ==
    /\ lastOp = "get"
    /\ nilRun >= 2
    /\ npush > 0
    /\ got = NilResult

\* the goroutines a stage starts
WorkersOf(k) == IF k = "buf" THEN {"col", "dr", "cl"} ELSE {k}

\* C11: Run calls every stage of the list, in order, the first with the
\* source and each next one with the channel the previous one returned,
\* calls no other stage, and returns the last stage's channel (the source
\* for the empty list); only the goroutines of these stages (and the
\* source and the consumer of main) run.
C11_RunComposes ==
    LET n == Len(stages)
    IN  /\ \A i \in 1..n :
              inp[stages[i]] = IF i = 1 THEN "src" ELSE stages[i - 1]
        /\ \A k \in Kinds :
              (\A i \in 1..n : stages[i] # k) => inp[k] = "none"
        /\ tail = IF n = 0 THEN "src" ELSE stages[n]
        /\ \A w \in Workers :
              pc[w] # "off" <=>
                 \/ w \in {"src", "con"}
                 \/ \E i \in 1..n : w \in WorkersOf(stages[i])

C11_Witness ==
    /\ stages = <<"buf", "spec", "neg">>
    /\ inp["spec"] = "buf"
    /\ tail = "neg"
    /\ array # NewArray(size)
    /\ pc["con"] = "done"

\* a step of goroutine w that reads or writes r.pos or r.array
BufferAccess(w) ==
    IF w = "col"
      THEN ColPushPos \/ ColPushStore
      ELSE DrGetCheck \/ DrGetSlice \/ (DrRange /\ drI < drLen)

\* C12: every read and write of pos and of the storage array happens inside
\* the accessing goroutine's critical section: a step that touches them is
\* taken with the lock held by that goroutine or free for it to take, never
\* while the other goroutine holds it.
C12_LockDiscipline ==
    [][\A w \in {"col", "dr"} : BufferAccess(w) => mu \in {"free", w}]_vars

\* s is an initial segment of t
IsPrefix(s, t) == Len(s) <= Len(t) /\ SubSeq(t, 1, Len(s)) = s

\* C13: without cancellation and without overproduction (here: no more
\* than size items reach the collector in all, so no more than size between
\* any two drains) the buffering stage emits the pushed items in push order,
\* each at most once: what it has emitted is an initial segment of what the
\* collector received.
C13_NoLossWithoutOverproduction ==
    (inp["buf"] # "none" /\ ~doneClosed /\ Len(hist[inp["buf"]]) <= size)
        => IsPrefix(hist["buf"], hist[inp["buf"]])

\* C14: once the buffering stage's input is closed the collector
\* terminates; as long as done is open the drainer and the closer stay and
\* the output stays open; and the n items left in the buffer are taken by the
\* next drain and sent, slot by slot, unless done is closed first.
C14_DrainerOutlivesInput ==
    /\ [](Closed(inp["buf"]) /\ ~doneClosed
            => pc["dr"] # "done" /\ pc["cl"] = "wait" /\ ~Closed("buf"))
    /\ Closed(inp["buf"]) ~> Terminated("col")
    /\ \A n \in 1..BufSize :
          (Terminated("col") /\ ~doneClosed /\ pc["dr"] = "select"
             /\ pos = n - 1)
            ~> (doneClosed \/ (pc["dr"] = "range" /\ drI = n /\ drLen = n))
    /\ [](Terminated("col") /\ pos = -1 /\ pc["dr"] = "send"
            => val["dr"] = array[drI + 1])

C14_Witness ==
    /\ Closed(inp["buf"])
    /\ pc["col"] = "done"
    /\ ~doneClosed
    /\ pc["dr"] = "range"
    /\ drI = BufSize
    /\ drLen = BufSize
    /\ pos = -1

\* C15: a filter whose input is closed closes its own output and
\* terminates; it closes once, and not before it handed on every accepted
\* item that passes its predicate (done still open); after the close it
\* stays terminated, so it sends nothing more.
C15_FilterExhaustion ==
    \A k \in {"neg", "spec"} :
       LET Passes(v) == IF k = "neg" THEN NonNegative(v)
                                     ELSE NonZeroMultipleOf3(v)
       IN  /\ (pc[k] # "off" /\ Closed(inp[k]))
                 ~> (pc[k] = "done" /\ Closed(k))
           /\ [](Closed(k) => [](pc[k] = "done" /\ closes[k] = 1))
           /\ [](Closed(k) /\ ~doneClosed
                   => hist[k] = SelectSeq(hist[inp[k]], Passes))

C15_Witness ==
    /\ stages = <<"spec">>
    /\ Closed("spec")
    /\ ~doneClosed
    /\ hist["src"] = <<2, 3, -3>>
    /\ hist["spec"] = <<3, -3>>

\* C16: the stage emits only what a drain took out of the buffer: the item
\* the drainer is sending was in the buffer when Get ran after the interval
\* fired, so it was pushed before that firing's drain and not after it.
C16_EmitsOnlyDrained ==
    pc["dr"] = "send" => \E i \in 1..Len(drSnap) : drSnap[i] = val["dr"]

\* C17: while the consumer is not receiving from the tail the source's
\* sends eventually block, even those of the items that pass both filters:
\* if from some time on nothing is handed over on the tail, then from some
\* time on the source hands over no item with v > 0 and 3 | v.
C17_BackPressure ==
    <>[][~Handoff("buf")]_vars
        => <>[][~(Handoff("src") /\ Survivor(val["src"]))]_vars

\* C17, as the code has it: a filter whose output is no longer taken
\* eventually accepts no further item that passes its predicate (it goes on
\* consuming the items it drops); the collector always comes back to its
\* receive, whatever becomes of the drainer's send.
C17_FilterBackPressure ==
    /\ <>[][~Handoff("neg")]_vars
          => <>[][~(Handoff("src") /\ NonNegative(val["src"]))]_vars
    /\ <>[][~Handoff("spec")]_vars
          => <>[][~(Handoff("neg") /\ NonZeroMultipleOf3(val["neg"]))]_vars
    /\ pc["col"] = "push" ~> pc["col"] = "select"

C17_Witness ==
    /\ ~doneClosed
    /\ pc["dr"] = "send"
    /\ pc["col"] = "push"
    /\ pc["spec"] = "send"
    /\ pc["neg"] = "send"
    /\ pc["src"] = "send"

\* C18: on a buffer of capacity size >= 1 the cursor stays within
\* -1..size-1 and the array keeps its length; a Push can always be made,
\* stores its item at the cursor and touches no other slot; a Get returns at
\* most size items; and a Push made when size or more items were pushed
\* since the last drain overwrites the slot of the oldest of the last size
\* of them.
C18_RingBound ==
    /\ size >= 1
    /\ -1 <= pos /\ pos <= size - 1
    /\ Len(array) = size
    /\ npush < MaxPushes => \A el \in Vals : ENABLED Push(el)
    /\ Len(got.items) <= size
    /\ lastOp = "push" =>
          LET n == Len(prev.pushed)
          IN  /\ pos >= 0
              /\ array = [prev.array EXCEPT ![pos + 1] = pushed[n + 1]]
              /\ n >= size => prev.array[pos + 1] = prev.pushed[n - size + 1]

C18_Witness ==
    /\ lastOp = "push"
    /\ size = 2
    /\ Len(pushed) = 4
    /\ array = <<pushed[3], pushed[4]>>
    /\ pushed[1] # pushed[3]
    /\ pushed[2] # pushed[4]

\* C19: whatever the interleaving, with or without wrap-around and
\* cancellation, every value handed over on the tail of main's pipeline is
\* positive, a multiple of three, and one of the values the source sent;
\* so the 0 of a slot that was never written is never emitted.
C19_NoFabricatedOutput ==
    \A i \in 1..Len(hist[tail]) :
        /\ Survivor(hist[tail][i])
        /\ \E j \in 1..Len(hist["src"]) : hist["src"][j] = hist[tail][i]

C19_Witness ==
    /\ doneClosed
    /\ hist["spec"] = <<3, 6, 3>>
    /\ Len(hist[tail]) >= 2
    /\ array[1] = 3
    /\ array[2] = 6

\* C20: when the buffering stage is the last stage, its output (the tail)
\* is closed only after done was closed, whether or not its input is
\* exhausted, and the consumer has returned only after done was closed.
C20_TailOpenUntilDone ==
    tail = "buf" =>
        /\ Closed(tail) => doneClosed
        /\ pc["con"] = "done" => doneClosed

C20_Witness ==
    /\ tail = "buf"
    /\ Len(stages) = 2
    /\ Closed(inp["buf"])
    /\ Closed(tail)
    /\ pc["con"] = "done"

====
